---- MODULE Spec2Model ----
(***************************************************************************)
(* A model of tracing-xray: the X-Ray identifiers (types/ids.rs), the      *)
(* clock value (types/time.rs), the X-Amzn-Trace-Id header parser and      *)
(* formatter (types/header.rs) and the Segment document's begin/end        *)
(* lifecycle (types/types.rs).                                             *)
(*                                                                         *)
(* Text is a sequence of characters, each character a one-element string;  *)
(* Option<T> is a sequence of length 0 (None) or 1 (Some).                 *)
(***************************************************************************)
EXTENDS Integers, Sequences, FiniteSets, TLC

VARIABLES
    now,        \* the wall clock's current reading (what Seconds::now() returns)
    seg,        \* Option<Segment>: the Segment under its owner's hand
    ends,       \* number of end() calls made on seg
    aborted,    \* TRUE once an operation has panicked
    given,      \* Option<text>: the name handed to Segment::begin
    json,       \* Option<entries>: what serializing seg wrote
    input,      \* Option<text>: the header text handed to Header::from_str
    dflt,       \* Option<Header>: the Header::default() the parse started from
    parsed,     \* Option<Result<Header, String>>: what from_str returned
    built,      \* Option<Header>: a Header put together with new/with_*
    output,     \* Option<text>: what Display wrote for the Header
    reparsed,   \* Option<Result<Header, String>>: what from_str(output) returned
    tid,        \* Option<TraceId>: a generated TraceId
    sid,        \* Option<SegmentId>: a generated SegmentId
    rendered,   \* Option<text>: the Display output of tid or sid
    ext,        \* Option<id>: the identifier read back from rendered
    code,       \* a text handed to SamplingDecision::from
    decision,   \* Option<SamplingDecision>: what from(code) returned
    encoded,    \* Option<text>: the Display output of decision
    redecoded,  \* Option<SamplingDecision>: what from(encoded) returned
    spans,      \* the registry: for each span id, its state and extension slot
    panicked    \* Option<message>: the panic that ended a Layer callback

segVars == <<seg, ends, aborted, given, json>>
hdrVars == <<input, dflt, parsed, built, output, reparsed>>
idVars == <<tid, sid, rendered, ext>>
codecVars == <<code, decision, encoded, redecoded>>
layerVars == <<spans, panicked>>
vars == <<now, seg, ends, aborted, given, json,
          input, dflt, parsed, built, output, reparsed,
          tid, sid, rendered, ext, code, decision, encoded, redecoded,
          spans, panicked>>

----------------------------------------------------------------------------
(* Bounds of the model *)

\* end() calls made on one Segment
MaxEnds == 2
\* segments, separated by semicolons, in a header text
MaxSegs == 3
\* extension pairs a Header is given with with_data
MaxData == 2
\* spans the registry hands to the Layer
MaxSpans == 2
\* optional fields set on a Segment that is serialized
MaxSet == 2

----------------------------------------------------------------------------
(* Option and text helpers *)

None == <<>>
Some(x) == <<x>>
IsSome(o) == Len(o) = 1
Unwrap(o) == o[1]

\* s[from..] of Rust, from counted from 0
Skip(s, from) == SubSeq(s, from + 1, Len(s))
\* s[..to] of Rust
Take(s, to) == SubSeq(s, 1, to)

\* str::starts_with
StartsWith(s, p) == Len(s) >= Len(p) /\ SubSeq(s, 1, Len(p)) = p

\* str::find(c): Option of the 0-based position of the first c
Find(s, c) ==
    IF \E i \in 1..Len(s) : s[i] = c
    THEN Some((CHOOSE i \in 1..Len(s) : s[i] = c /\ \A j \in 1..(i - 1) : s[j] # c) - 1)
    ELSE None

\* str::split(c): the pieces between occurrences of c; never empty
RECURSIVE Split(_, _)
Split(s, c) ==
    LET p == Find(s, c)
    IN  IF IsSome(p)
        THEN <<Take(s, Unwrap(p))>> \o Split(Skip(s, Unwrap(p) + 1), c)
        ELSE <<s>>

\* c repeated n times
Rep(c, n) == [i \in 1..n |-> c]

RECURSIVE Join(_, _)
Join(pieces, c) ==
    IF Len(pieces) = 0 THEN <<>>
    ELSE IF Len(pieces) = 1 THEN pieces[1]
    ELSE pieces[1] \o <<c>> \o Join(Tail(pieces), c)

----------------------------------------------------------------------------
(* types/types.rs: Bytes, LowerHex *)

HexDigits == <<"0", "1", "2", "3", "4", "5", "6", "7",
               "8", "9", "a", "b", "c", "d", "e", "f">>

\* {:x} of an unsigned number: its base-16 digits, no leading zero
RECURSIVE LowerHex(_)
LowerHex(n) ==
    IF n < 16 THEN <<HexDigits[n + 1]>>
    ELSE LowerHex(n \div 16) \o <<HexDigits[(n % 16) + 1]>>

\* the {:0w} flag: zero-pad on the left up to w characters, never cut
ZeroPad(s, w) == IF Len(s) >= w THEN s ELSE Rep("0", w - Len(s)) \o s

\* format_args!("{:02x}", byte)
ByteHex(byte) == ZeroPad(LowerHex(byte), 2)

\* impl LowerHex for Bytes: each byte in turn
RECURSIVE BytesLowerHex(_)
BytesLowerHex(bytes) ==
    IF Len(bytes) = 0 THEN <<>>
    ELSE ByteHex(bytes[1]) \o BytesLowerHex(Tail(bytes))

----------------------------------------------------------------------------
(* types/time.rs: Seconds.  A u64 is four 16-bit limbs, most significant   *)
(* first; a Seconds value is its whole seconds and a fraction in tenths.   *)

\* the readings the wall clock is sampled at: the epoch (also the fallback of
\* a clock set before it), 0x5759e988, 0xffffffff, 0x1_0000_0000
ClockSecs == { <<0, 0, 0, 0>>, <<0, 0, 22361, 59784>>,
               <<0, 0, 65535, 65535>>, <<0, 1, 0, 0>> }
ClockReadings == [whole : ClockSecs, tenths : {0, 7}]

\* Seconds::trunc: the fraction dropped
Trunc(s) == s.whole

\* {:x} of a u64: the limbs' digits with the leading zeros dropped
RECURSIVE StripZeros(_)
StripZeros(s) ==
    IF Len(s) > 1 /\ s[1] = "0" THEN StripZeros(Tail(s)) ELSE s

U64LowerHex(u) ==
    StripZeros(ZeroPad(LowerHex(u[1]), 4) \o ZeroPad(LowerHex(u[2]), 4)
               \o ZeroPad(LowerHex(u[3]), 4) \o ZeroPad(LowerHex(u[4]), 4))

----------------------------------------------------------------------------
(* types/ids.rs: SegmentId and TraceId.  Both variants are records of the  *)
(* same shape; the fields a variant does not have are left empty.          *)

\* rand::thread_rng().fill_bytes(buf): the buffers the model draws, n bytes
\* long, the first byte from firsts and every other byte from rest
RandomBufs(n, firsts, rest) ==
    { <<a>> \o Rep(b, n - 1) : a \in firsts, b \in rest }

SegmentIdLen == 8
TraceIdLen == 12

SegmentIdNew(bytes) == [kind |-> "New", bytes |-> bytes, text |-> <<>>]
SegmentIdRendered(text) == [kind |-> "Rendered", bytes |-> <<>>, text |-> text]

TraceIdNew(seconds, bytes) ==
    [kind |-> "New", seconds |-> seconds, bytes |-> bytes, text |-> <<>>]
TraceIdRendered(text) ==
    [kind |-> "Rendered", seconds |-> <<>>, bytes |-> <<>>, text |-> text]

\* TraceId::new(): the clock truncated, and 12 random bytes
TraceIdGenerate(clock, buf) == TraceIdNew(Trunc(clock), buf)

\* impl Display for SegmentId
SegmentIdDisplay(id) ==
    IF id.kind = "New" THEN BytesLowerHex(id.bytes) ELSE id.text

\* write!(f, "1-{:08x}-{:x}", seconds, Bytes(bytes))
TraceIdDisplay(id) ==
    IF id.kind = "New"
    THEN <<"1", "-">> \o ZeroPad(U64LowerHex(id.seconds), 8) \o <<"-">>
         \o BytesLowerHex(id.bytes)
    ELSE id.text

\* #[derive(PartialEq)]: the same variant with the same payload
SegmentIdEq(a, b) ==
    /\ a.kind = b.kind
    /\ IF a.kind = "New" THEN a.bytes = b.bytes ELSE a.text = b.text

TraceIdEq(a, b) ==
    /\ a.kind = b.kind
    /\ IF a.kind = "New"
       THEN a.seconds = b.seconds /\ a.bytes = b.bytes
       ELSE a.text = b.text

----------------------------------------------------------------------------
(* types/types.rs: Segment *)

\* the characters of a name: "U+00E9" stands for a character of two bytes
WideChars == {"U+00E9"}
Width(c) == IF c \in WideChars THEN 2 ELSE 1

\* String::len(): the length in bytes (halving keeps the evaluation shallow)
RECURSIVE ByteLen(_)
ByteLen(s) ==
    IF Len(s) = 0 THEN 0
    ELSE IF Len(s) = 1 THEN Width(s[1])
    ELSE LET h == Len(s) \div 2
         IN  ByteLen(Take(s, h)) + ByteLen(Skip(s, h))

NameLimit == 200

\* str::is_char_boundary(k): byte k is the start of s, its end, or the end of
\* one of its characters
IsCharBoundary(s, k) ==
    LET wide == { j \in 1..Len(s) : Width(s[j]) = 2 }
    IN  \E i \in 0..Len(s) : i + Cardinality({ j \in wide : j <= i }) = k

\* &s[..k] for a k that is a character boundary: the characters that end at
\* or before byte k (a character is one byte or two)
SliceTo(s, k) ==
    LET wide == { j \in 1..Len(s) : Width(s[j]) = 2 }
    IN  Take(s, CHOOSE i \in 0..Len(s) : i + Cardinality({ j \in wide : j <= i }) = k)

\* #[derive(Default)] for Segment, given what the clock and the random source
\* yield: bool fields are false, Option fields None, the name empty
SegmentDefault(clock, tbuf, sbuf) ==
    [ trace_id |-> TraceIdGenerate(clock, tbuf),
      id |-> SegmentIdNew(sbuf),
      name |-> <<>>,
      start_time |-> clock,
      end_time |-> None,
      in_progress |-> FALSE,
      parent_id |-> None,
      fault |-> FALSE,
      error |-> FALSE,
      throttle |-> FALSE,
      cause |-> None,
      origin |-> None,
      user |-> None,
      resource_arn |-> None,
      annotations |-> None,
      metadata |-> None,
      aws |-> None,
      service |-> None ]

\* Segment::begin panics when valid_name[..200] cuts a character in two
BeginPanics(name) ==
    ByteLen(name) > NameLimit /\ ~IsCharBoundary(name, NameLimit)

ValidName(name) ==
    IF ByteLen(name) > NameLimit
    THEN SliceTo(name, NameLimit)
    ELSE name

SegmentBegin(name, clock, tbuf, sbuf) ==
    [SegmentDefault(clock, tbuf, sbuf) EXCEPT !.name = ValidName(name)]

\* as SegmentEnd, but an end_time already set is kept
SegmentEndOnce(s, clock) ==
    [s EXCEPT !.end_time = IF s.end_time = None THEN Some(clock) ELSE s.end_time,
              !.in_progress = FALSE]

\* Segment::end
SegmentEnd(s, clock) ==
    [s EXCEPT !.end_time = Some(clock), !.in_progress = FALSE]

\* the names handed to begin()
Names ==
    { <<>>, <<"s", "v", "c">>, Rep("a", NameLimit), Rep("a", NameLimit + 1),
      Rep("a", NameLimit + 50),
      Rep("a", NameLimit - 2) \o <<"U+00E9">>,
      Rep("a", NameLimit - 1) \o <<"U+00E9">> }

SegBufs(n) == RandomBufs(n, {0, 255}, {116})

----------------------------------------------------------------------------
(* The Segment lifecycle: begin(name), then end() any number of times *)

HdrIdle ==
    /\ input = None /\ dflt = None /\ parsed = None /\ built = None
    /\ output = None /\ reparsed = None
IdIdle == tid = None /\ sid = None /\ rendered = None /\ ext = None
CodecIdle ==
    code = <<>> /\ decision = None /\ encoded = None /\ redecoded = None
SegIdle ==
    /\ seg = None /\ ends = 0 /\ aborted = FALSE
    /\ given = None /\ json = None
\* the registry holds no span
LayerIdle == spans = <<>> /\ panicked = None

InitSegment ==
    /\ now \in ClockReadings
    /\ SegIdle /\ HdrIdle /\ IdIdle /\ CodecIdle /\ LayerIdle

\* the wall clock moves (SystemTime is not monotonic)
Tick ==
    /\ now' \in ClockReadings \ {now}
    /\ UNCHANGED <<segVars, hdrVars, idVars, codecVars, layerVars>>

Begin ==
    /\ seg = None /\ ~aborted
    /\ \E name \in Names, tbuf \in SegBufs(TraceIdLen), sbuf \in SegBufs(SegmentIdLen) :
         /\ given' = Some(name)
         /\ IF BeginPanics(name)
            THEN aborted' = TRUE /\ UNCHANGED <<seg, ends>>
            ELSE /\ seg' = Some(SegmentBegin(name, now, tbuf, sbuf))
                 /\ UNCHANGED <<ends, aborted>>
    /\ UNCHANGED json
    /\ UNCHANGED <<now, hdrVars, idVars, codecVars, layerVars>>

End ==
    /\ IsSome(seg) /\ ends < MaxEnds /\ json = None
    /\ seg' = Some(SegmentEnd(Unwrap(seg), now))
    /\ ends' = ends + 1
    /\ UNCHANGED <<now, aborted, given, json, hdrVars, idVars, codecVars, layerVars>>

NextSegment == Tick \/ Begin \/ End

SpecSegment == InitSegment /\ [][NextSegment]_vars

\* C1: after begin() and any number of end() calls exactly one of {end_time
\* present, in_progress = true} holds: in_progress and no end_time before the
\* first end(), an end_time and not in_progress after it.
C1_ExactlyOneOfEndTimeInProgress ==
    IsSome(seg) =>
        LET s == Unwrap(seg)
        IN  /\ IsSome(s.end_time) # s.in_progress
            /\ ends = 0 => (s.in_progress /\ s.end_time = None)
            /\ ends > 0 => (~s.in_progress /\ IsSome(s.end_time))

IsPrefix(p, s) == Len(p) <= Len(s) /\ Take(s, Len(p)) = p

\* C11: for every name, begin(name) returns a Segment; its name is the name
\* given when that has at most 200 units (bytes, as String::len counts) and
\* the first 200 units of it when it is longer; never more than 200 units.
C11_NameKeptOrCutAt200 ==
    IsSome(given) =>
        /\ ~aborted /\ IsSome(seg)
        /\ LET name == Unwrap(seg).name
               g == Unwrap(given)
           IN  /\ ByteLen(g) <= NameLimit => name = g
               /\ ByteLen(g) > NameLimit =>
                     (IsPrefix(name, g) /\ ByteLen(name) = NameLimit)
               /\ ByteLen(name) <= NameLimit

\* C13: once end() has been called the Segment stays done: in_progress false
\* and end_time present in every later state; end() may be called again, does
\* not fail, and leaves end_time at the clock reading of that call.
C13_DoneIsTerminal ==
    /\ [](ends > 0 =>
            /\ IsSome(seg) /\ ~aborted
            /\ ~Unwrap(seg).in_progress /\ IsSome(Unwrap(seg).end_time))
    /\ []((IsSome(seg) /\ ends < MaxEnds) => ENABLED End)
    /\ [][ /\ ends > 0 => ends' >= ends
           /\ ends' > ends =>
                 /\ Unwrap(seg').end_time = Some(now)
                 /\ ~Unwrap(seg').in_progress
                 /\ ~aborted' ]_vars

C13_Witness ==
    /\ ends = 2 /\ IsSome(seg)
    /\ Unwrap(seg).end_time = Some(now) /\ Unwrap(seg).start_time # now
    /\ ~Unwrap(seg).in_progress

----------------------------------------------------------------------------
(* types/types.rs: the serialized form of a Segment.  The output is the    *)
(* set of its entries <<path, tag>>: path the field names from the top,    *)
(* tag what is written there: "null", "true", "string", "number", "map"    *)
(* or "object".                                                            *)

\* #[derive(Default)] of the nested blocks
ServiceDefault == [version |-> None]
XRayDefault == [sdk_version |-> None]
EcsDefault == [container |-> None]
Ec2Default == [instance_id |-> None, availability_zone |-> None]
ElasticBeanstalkDefault ==
    [environment_name |-> None, version_label |-> None, deployment_id |-> None]
TracingDefault == [sdk |-> <<>>]
AwsDefault ==
    [account_id |-> None, ecs |-> None, ec2 |-> None,
     elastic_beanstalk |-> None, tracing |-> None, xray |-> None]

\* a value written in place
Leaf(tag) == { << <<>>, tag >> }
\* a struct: the object itself and the entries of its fields
Object(entries) == Leaf("object") \cup entries
\* a field that is always written
Field(k, entries) == { << <<k>> \o e[1], e[2] >> : e \in entries }
\* #[serde(skip_serializing_if = "Option::is_none")]
SkipIfNone(k, o, entries) == IF o = None THEN {} ELSE Field(k, entries)
\* #[serde(skip_serializing_if = "Not::not")]
SkipIfNot(k, b) == IF ~b THEN {} ELSE Field(k, Leaf("true"))
\* Option<T> of a plain T: None is written as null
SerOption(o, tag) == IF o = None THEN Leaf("null") ELSE Leaf(tag)

SerService(s) ==
    Object(SkipIfNone("version", s.version, SerOption(s.version, "string")))

\* sdk_version has no skip_serializing_if
SerXRay(x) ==
    Object(Field("sdk_version", SerOption(x.sdk_version, "string")))

SerEcs(e) ==
    Object(SkipIfNone("container", e.container, SerOption(e.container, "string")))

SerEc2(e) ==
    Object(SkipIfNone("instance_id", e.instance_id,
                      SerOption(e.instance_id, "string"))
           \cup SkipIfNone("availability_zone", e.availability_zone,
                           SerOption(e.availability_zone, "string")))

SerElasticBeanstalk(e) ==
    Object(SkipIfNone("environment_name", e.environment_name,
                      SerOption(e.environment_name, "string"))
           \cup SkipIfNone("version_label", e.version_label,
                           SerOption(e.version_label, "string"))
           \cup SkipIfNone("deployment_id", e.deployment_id,
                           SerOption(e.deployment_id, "number")))

\* sdk is a String: always written
SerTracing(tr) == Object(Field("sdk", Leaf("string")))

SerAws(a) ==
    Object(SkipIfNone("account_id", a.account_id, SerOption(a.account_id, "string"))
           \cup SkipIfNone("ecs", a.ecs,
                  IF a.ecs = None THEN Leaf("null") ELSE SerEcs(Unwrap(a.ecs)))
           \cup SkipIfNone("ec2", a.ec2,
                  IF a.ec2 = None THEN Leaf("null") ELSE SerEc2(Unwrap(a.ec2)))
           \cup SkipIfNone("elastic_beanstalk", a.elastic_beanstalk,
                  IF a.elastic_beanstalk = None THEN Leaf("null")
                  ELSE SerElasticBeanstalk(Unwrap(a.elastic_beanstalk)))
           \cup SkipIfNone("tracing", a.tracing,
                  IF a.tracing = None THEN Leaf("null")
                  ELSE SerTracing(Unwrap(a.tracing)))
           \cup SkipIfNone("xray", a.xray,
                  IF a.xray = None THEN Leaf("null") ELSE SerXRay(Unwrap(a.xray))))

\* #[derive(Serialize)] for Segment
SerSegment(s) ==
    Object(Field("trace_id", Leaf("string"))
           \cup Field("id", Leaf("string"))
           \cup Field("name", Leaf("string"))
           \cup Field("start_time", Leaf("number"))
           \cup SkipIfNone("end_time", s.end_time, SerOption(s.end_time, "number"))
           \cup SkipIfNot("in_progress", s.in_progress)
           \cup SkipIfNone("parent_id", s.parent_id, SerOption(s.parent_id, "string"))
           \cup SkipIfNot("fault", s.fault)
           \cup SkipIfNot("error", s.error)
           \cup SkipIfNot("throttle", s.throttle)
           \cup SkipIfNone("cause", s.cause, SerOption(s.cause, "string"))
           \cup SkipIfNone("origin", s.origin, SerOption(s.origin, "string"))
           \cup SkipIfNone("user", s.user, SerOption(s.user, "string"))
           \cup SkipIfNone("resource_arn", s.resource_arn,
                           SerOption(s.resource_arn, "string"))
           \cup SkipIfNone("annotations", s.annotations,
                           SerOption(s.annotations, "map"))
           \cup SkipIfNone("metadata", s.metadata, SerOption(s.metadata, "map"))
           \cup SkipIfNone("aws", s.aws,
                  IF s.aws = None THEN Leaf("null") ELSE SerAws(Unwrap(s.aws)))
           \cup SkipIfNone("service", s.service,
                  IF s.service = None THEN Leaf("null")
                  ELSE SerService(Unwrap(s.service))))

----------------------------------------------------------------------------
(* Segments serialized: a Segment with some of its optional fields set,    *)
(* then written                                                            *)

\* the fields of a Segment that may be left unset, and the flags
OptionalTop ==
    { "end_time", "parent_id", "cause", "origin", "user", "resource_arn",
      "annotations", "metadata", "aws", "service" }
BoolTop == { "in_progress", "fault", "error", "throttle" }

DocClock == [whole |-> <<0, 0, 22361, 59784>>, tenths |-> 7]

\* the Aws blocks of the model: nothing set, one field set (a nested block
\* itself with nothing or something set), and everything set
AwsValues ==
    { AwsDefault,
      [AwsDefault EXCEPT !.account_id = Some(<<"1">>)],
      [AwsDefault EXCEPT !.ecs = Some(EcsDefault)],
      [AwsDefault EXCEPT !.ecs = Some([container |-> Some(<<"c">>)])],
      [AwsDefault EXCEPT !.ec2 = Some(Ec2Default)],
      [AwsDefault EXCEPT !.ec2 = Some([Ec2Default EXCEPT !.instance_id = Some(<<"i">>)])],
      [AwsDefault EXCEPT !.elastic_beanstalk = Some(ElasticBeanstalkDefault)],
      [AwsDefault EXCEPT !.elastic_beanstalk =
          Some([ElasticBeanstalkDefault EXCEPT !.deployment_id = Some(<<"7">>)])],
      [AwsDefault EXCEPT !.tracing = Some(TracingDefault)],
      [AwsDefault EXCEPT !.xray = Some(XRayDefault)],
      [AwsDefault EXCEPT !.xray = Some([sdk_version |-> Some(<<"2">>)])],
      [ account_id |-> Some(<<"1">>),
        ecs |-> Some([container |-> Some(<<"c">>)]),
        ec2 |-> Some([instance_id |-> Some(<<"i">>),
                      availability_zone |-> Some(<<"z">>)]),
        elastic_beanstalk |-> Some([environment_name |-> Some(<<"e">>),
                                    version_label |-> Some(<<"l">>),
                                    deployment_id |-> Some(<<"7">>)]),
        tracing |-> Some([sdk |-> <<"t">>]),
        xray |-> Some([sdk_version |-> Some(<<"2">>)]) ] }

\* the values a field is set to
FieldValues(f) ==
    CASE f = "end_time" -> { Some(DocClock) }
      [] f = "parent_id" -> { Some(SegmentIdRendered(<<"p">>)) }
      [] f \in BoolTop -> { TRUE }
      [] f \in { "cause", "origin", "user", "resource_arn" } -> { Some(<<"x">>) }
      [] f \in { "annotations", "metadata" } -> { Some({}) }
      [] f = "aws" -> { Some(a) : a \in AwsValues }
      [] f = "service" -> { Some(ServiceDefault), Some([version |-> Some(<<"1">>)]) }

\* docs with each field of F set to each of its values
RECURSIVE SetAll(_, _)
SetAll(docs, F) ==
    IF F = {} THEN docs
    ELSE LET f == CHOOSE g \in F : TRUE
         IN  SetAll({ [d EXCEPT ![f] = v] : d \in docs, v \in FieldValues(f) },
                    F \ {f})

\* a begun Segment with at most MaxSet of its fields set
Documents ==
    UNION { SetAll({ SegmentBegin(<<"s", "v", "c">>, DocClock,
                                  Rep(1, TraceIdLen), Rep(2, SegmentIdLen)) }, F) :
            F \in { G \in SUBSET (OptionalTop \cup BoolTop) : Cardinality(G) <= MaxSet } }

InitDocument ==
    /\ now = DocClock
    /\ seg \in { Some(d) : d \in Documents }
    /\ ends = 0 /\ aborted = FALSE /\ given = None /\ json = None
    /\ HdrIdle /\ IdIdle /\ CodecIdle /\ LayerIdle

\* serde_json::to_string(&segment)
Serialize ==
    /\ IsSome(seg) /\ json = None
    /\ json' = Some(SerSegment(Unwrap(seg)))
    /\ UNCHANGED <<now, seg, ends, aborted, given, hdrVars, idVars, codecVars,
                   layerVars>>

NextDocument == Serialize

SpecDocument == InitDocument /\ [][NextDocument]_vars

\* no entry of E is at path or below it
Absent(E, path) == \A e \in E : ~IsPrefix(path, e[1])
\* the fields of a block that are None are absent below prefix
UnsetAbsent(E, prefix, block, fields) ==
    \A f \in fields : block[f] = None => Absent(E, prefix \o <<f>>)

\* C12: in the serialized form of a Segment nothing is written as null, every
\* optional field that is unset is absent, at the top level and in each
\* nested block, and fault, error and throttle are absent when false.
C12_UnsetFieldsAbsent ==
    IsSome(json) =>
        LET s == Unwrap(seg)
            E == Unwrap(json)
        IN  /\ \A e \in E : e[2] # "null"
            /\ UnsetAbsent(E, <<>>, s, OptionalTop)
            /\ \A f \in { "fault", "error", "throttle" } : ~s[f] => Absent(E, <<f>>)
            /\ IsSome(s.service) =>
                 UnsetAbsent(E, <<"service">>, Unwrap(s.service), { "version" })
            /\ IsSome(s.aws) =>
                 LET a == Unwrap(s.aws)
                 IN  /\ UnsetAbsent(E, <<"aws">>, a,
                          { "account_id", "ecs", "ec2", "elastic_beanstalk",
                            "tracing", "xray" })
                     /\ IsSome(a.ecs) =>
                          UnsetAbsent(E, <<"aws", "ecs">>, Unwrap(a.ecs), { "container" })
                     /\ IsSome(a.ec2) =>
                          UnsetAbsent(E, <<"aws", "ec2">>, Unwrap(a.ec2),
                                      { "instance_id", "availability_zone" })
                     /\ IsSome(a.elastic_beanstalk) =>
                          UnsetAbsent(E, <<"aws", "elastic_beanstalk">>,
                                      Unwrap(a.elastic_beanstalk),
                                      { "environment_name", "version_label",
                                        "deployment_id" })
                     /\ IsSome(a.xray) =>
                          UnsetAbsent(E, <<"aws", "xray">>, Unwrap(a.xray),
                                      { "sdk_version" })

----------------------------------------------------------------------------
(* types/header.rs: SamplingDecision *)

Decisions == {"Sampled", "NotSampled", "Requested", "Unknown"}

SampledEq == <<"S", "a", "m", "p", "l", "e", "d", "=">>
CodeSampled == SampledEq \o <<"1">>
CodeNotSampled == SampledEq \o <<"0">>
CodeRequested == SampledEq \o <<"?">>

\* as DecisionFrom, but matching the start of the text only
DecisionFromPrefix(value) ==
    IF StartsWith(value, CodeSampled) THEN "Sampled"
    ELSE IF StartsWith(value, CodeNotSampled) THEN "NotSampled"
    ELSE IF StartsWith(value, CodeRequested) THEN "Requested"
    ELSE "Unknown"

\* impl From<&str> for SamplingDecision
DecisionFrom(value) ==
    IF value = CodeSampled THEN "Sampled"
    ELSE IF value = CodeNotSampled THEN "NotSampled"
    ELSE IF value = CodeRequested THEN "Requested"
    ELSE "Unknown"

\* impl Display for SamplingDecision
DecisionDisplay(d) ==
    IF d = "Sampled" THEN CodeSampled
    ELSE IF d = "NotSampled" THEN CodeNotSampled
    ELSE IF d = "Requested" THEN CodeRequested
    ELSE <<>>

----------------------------------------------------------------------------
(* types/header.rs: Header.  additional_data, a HashMap, is a set of       *)
(* <<key, value>> pairs with no key twice.                                 *)

RootEq == <<"R", "o", "o", "t", "=">>
ParentEq == <<"P", "a", "r", "e", "n", "t", "=">>
SelfEq == <<"S", "e", "l", "f", "=">>

\* HashMap::insert: the pair replaces the one the key had
MapInsert(m, k, v) == { p \in m : p[1] # k } \cup { <<k, v>> }

\* #[derive(Default)] for Header: a generated TraceId, nothing else
HeaderDefault(clock, buf) ==
    [ trace_id |-> TraceIdGenerate(clock, buf),
      parent_id |-> None,
      sampling_decision |-> "Unknown",
      additional_data |-> {} ]

HeaderNew(trace_id, clock, buf) ==
    [HeaderDefault(clock, buf) EXCEPT !.trace_id = trace_id]
WithParentId(h, parent_id) == [h EXCEPT !.parent_id = Some(parent_id)]
WithSamplingDecision(h, d) == [h EXCEPT !.sampling_decision = d]
WithData(h, k, v) ==
    [h EXCEPT !.additional_data = MapInsert(h.additional_data, k, v)]

\* Result<Header, String>
Ok(h) == [ok |-> TRUE, header |-> h, err |-> <<>>]
Err(e, h) == [ok |-> FALSE, header |-> h, err |-> e]

\* the Err's message, format!("invalid key=value: no = found in {}", text)
\* with the = and the {} each between backquotes; "U+0060" is the backquote
NoEqualsError(text) ==
    << "i", "n", "v", "a", "l", "i", "d", " ", "k", "e", "y", "=", "v", "a",
       "l", "u", "e", ":", " ", "n", "o", " ", "U+0060", "=", "U+0060", " ",
       "f", "o", "u", "n", "d", " ", "i", "n", " ", "U+0060" >>
    \o text \o << "U+0060" >>

\* str::rfind(c): Option of the 0-based position of the last c
FindLast(s, c) ==
    IF \E i \in 1..Len(s) : s[i] = c
    THEN Some((CHOOSE i \in 1..Len(s) : s[i] = c /\ \A j \in (i + 1)..Len(s) : s[j] # c) - 1)
    ELSE None

\* as ParseLine, but the Root= line cut one character early
ParseLineKeepsEq(header, line, s) ==
    IF StartsWith(line, RootEq)
    THEN Ok([header EXCEPT !.trace_id = TraceIdRendered(Skip(line, 4))])
    ELSE IF StartsWith(line, ParentEq)
    THEN Ok([header EXCEPT !.parent_id = Some(SegmentIdRendered(Skip(line, 7)))])
    ELSE IF StartsWith(line, SampledEq)
    THEN Ok([header EXCEPT !.sampling_decision = DecisionFrom(line)])
    ELSE IF ~StartsWith(line, SelfEq)
    THEN LET pos == Find(line, "=")
         IN  IF IsSome(pos)
             THEN Ok(WithData(header, Take(line, Unwrap(pos)),
                              Skip(line, Unwrap(pos) + 1)))
             ELSE Err(NoEqualsError(s), header)
    ELSE Ok(header)

\* as ParseLine, but a key=value line split at its last =
ParseLineSplitLast(header, line, s) ==
    IF StartsWith(line, RootEq)
    THEN Ok([header EXCEPT !.trace_id = TraceIdRendered(Skip(line, 5))])
    ELSE IF StartsWith(line, ParentEq)
    THEN Ok([header EXCEPT !.parent_id = Some(SegmentIdRendered(Skip(line, 7)))])
    ELSE IF StartsWith(line, SampledEq)
    THEN Ok([header EXCEPT !.sampling_decision = DecisionFrom(line)])
    ELSE IF ~StartsWith(line, SelfEq)
    THEN LET pos == FindLast(line, "=")
         IN  IF IsSome(pos)
             THEN Ok(WithData(header, Take(line, Unwrap(pos)),
                              Skip(line, Unwrap(pos) + 1)))
             ELSE Err(NoEqualsError(s), header)
    ELSE Ok(header)

\* as ParseLine, but without the test for Self=: the line is a key=value
ParseLineStoreSelf(header, line, s) ==
    IF StartsWith(line, RootEq)
    THEN Ok([header EXCEPT !.trace_id = TraceIdRendered(Skip(line, 5))])
    ELSE IF StartsWith(line, ParentEq)
    THEN Ok([header EXCEPT !.parent_id = Some(SegmentIdRendered(Skip(line, 7)))])
    ELSE IF StartsWith(line, SampledEq)
    THEN Ok([header EXCEPT !.sampling_decision = DecisionFrom(line)])
    ELSE LET pos == Find(line, "=")
         IN  IF IsSome(pos)
             THEN Ok(WithData(header, Take(line, Unwrap(pos)),
                              Skip(line, Unwrap(pos) + 1)))
             ELSE Err(NoEqualsError(s), header)

\* the closure of try_fold: one line of s, cut at the semicolons, folded
\* into header
ParseLine(header, line, s) ==
    IF StartsWith(line, RootEq)
    THEN Ok([header EXCEPT !.trace_id = TraceIdRendered(Skip(line, 5))])
    ELSE IF StartsWith(line, ParentEq)
    THEN Ok([header EXCEPT !.parent_id = Some(SegmentIdRendered(Skip(line, 7)))])
    ELSE IF StartsWith(line, SampledEq)
    THEN Ok([header EXCEPT !.sampling_decision = DecisionFrom(line)])
    ELSE IF ~StartsWith(line, SelfEq)
    THEN LET pos == Find(line, "=")
         IN  IF IsSome(pos)
             THEN Ok(WithData(header, Take(line, Unwrap(pos)),
                              Skip(line, Unwrap(pos) + 1)))
             ELSE Err(NoEqualsError(s), header)
    ELSE Ok(header)

\* as TryFold, but from the last line to the first
RECURSIVE TryFoldReversed(_, _, _)
TryFoldReversed(header, lines, s) ==
    IF Len(lines) = 0 THEN Ok(header)
    ELSE LET r == TryFoldReversed(header, Tail(lines), s)
         IN  IF r.ok THEN ParseLine(r.header, lines[1], s) ELSE r

\* Iterator::try_fold: left to right, stopping at the first Err
RECURSIVE TryFold(_, _, _)
TryFold(header, lines, s) ==
    IF Len(lines) = 0 THEN Ok(header)
    ELSE LET r == ParseLine(header, lines[1], s)
         IN  IF r.ok THEN TryFold(r.header, Tail(lines), s) ELSE r

\* impl FromStr for Header, the Header::default() it starts from given
HeaderFromStr(s, default) == TryFold(default, Split(s, ";"), s)

\* the orders a HashMap may be iterated in
Orders(m) ==
    { o \in [1..Cardinality(m) -> m] : \A i, j \in 1..Cardinality(m) : o[i] = o[j] => i = j }

\* #[derive(PartialEq)] on Header, field by field
HeaderEq(a, b) ==
    /\ TraceIdEq(a.trace_id, b.trace_id)
    /\ IsSome(a.parent_id) = IsSome(b.parent_id)
    /\ IsSome(a.parent_id) =>
         SegmentIdEq(Unwrap(a.parent_id), Unwrap(b.parent_id))
    /\ a.sampling_decision = b.sampling_decision
    /\ a.additional_data = b.additional_data

\* as DataDisplay, but a space written after each semicolon
RECURSIVE DataDisplaySpaced(_)
DataDisplaySpaced(order) ==
    IF Len(order) = 0 THEN <<>>
    ELSE <<";", " ">> \o order[1][1] \o <<"=">> \o order[1][2]
         \o DataDisplaySpaced(Tail(order))

\* the loop of Display over additional_data
RECURSIVE DataDisplay(_)
DataDisplay(order) ==
    IF Len(order) = 0 THEN <<>>
    ELSE <<";">> \o order[1][1] \o <<"=">> \o order[1][2] \o DataDisplay(Tail(order))

\* as HeaderDisplay, but the decision written whatever it is
HeaderDisplayAnyDecision(h, order) ==
    RootEq \o TraceIdDisplay(h.trace_id)
    \o (IF IsSome(h.parent_id)
        THEN <<";">> \o ParentEq \o SegmentIdDisplay(Unwrap(h.parent_id))
        ELSE <<>>)
    \o <<";">> \o DecisionDisplay(h.sampling_decision)
    \o DataDisplay(order)

\* impl Display for Header, the map iterated in the given order
HeaderDisplay(h, order) ==
    RootEq \o TraceIdDisplay(h.trace_id)
    \o (IF IsSome(h.parent_id)
        THEN <<";">> \o ParentEq \o SegmentIdDisplay(Unwrap(h.parent_id))
        ELSE <<>>)
    \o (IF h.sampling_decision # "Unknown"
        THEN <<";">> \o DecisionDisplay(h.sampling_decision)
        ELSE <<>>)
    \o DataDisplay(order)

----------------------------------------------------------------------------
(* Header texts parsed and formatted, Headers built and formatted *)

\* the segments the header texts are made of
SegTexts ==
    { RootEq \o <<"a">>, RootEq \o <<"b">>,
      ParentEq \o <<"p">>, ParentEq \o <<"q">>,
      CodeSampled, CodeNotSampled, CodeRequested, SampledEq \o <<"x">>,
      <<"k", "=", "v">>, <<"k", "=", "w", "=", "v">>, <<"j", "=", "v">>,
      SelfEq \o <<"s">>, <<"F", "o", "o">>, <<>> }

\* every text of 1..MaxSegs segments joined by semicolons
HeaderTexts ==
    { Join(segs, ";") : segs \in UNION { [1..n -> SegTexts] : n \in 1..MaxSegs } }

\* what the identifiers, keys and values of a built Header are drawn from
IdTexts == { <<"a">>, <<";">> }
Keys == { <<"k">>, <<"j">>, <<"i">> }
Values == { <<"v">>, <<";">> }
HdrBufs(n) == RandomBufs(n, {10}, {255})
HdrClocks == { c \in ClockReadings : c.tenths = 7 /\ c.whole[3] = 22361 }

InitHeader ==
    /\ now \in HdrClocks
    /\ input \in {None} \cup { Some(t) : t \in HeaderTexts }
    /\ dflt = None /\ parsed = None /\ built = None /\ output = None
    /\ reparsed = None
    /\ SegIdle /\ IdIdle /\ CodecIdle /\ LayerIdle

\* text.parse::<Header>()
FromStr ==
    /\ IsSome(input) /\ parsed = None
    /\ \E buf \in HdrBufs(TraceIdLen) :
         /\ dflt' = Some(HeaderDefault(now, buf))
         /\ parsed' = Some(HeaderFromStr(Unwrap(input), HeaderDefault(now, buf)))
    /\ UNCHANGED <<now, input, built, output, reparsed, segVars, idVars, codecVars, layerVars>>

\* Header::new(trace_id)
New ==
    /\ input = None /\ built = None
    /\ \E buf \in HdrBufs(TraceIdLen) :
         \E t \in { TraceIdRendered(x) : x \in IdTexts } \cup { TraceIdGenerate(now, buf) } :
            built' = Some(HeaderNew(t, now, buf))
    /\ UNCHANGED <<now, input, dflt, parsed, output, reparsed, segVars, idVars, codecVars, layerVars>>

WithParentIdAct ==
    /\ IsSome(built) /\ output = None
    /\ \E p \in { SegmentIdRendered(x) : x \in IdTexts }
                \cup { SegmentIdNew(b) : b \in HdrBufs(SegmentIdLen) } :
         built' = Some(WithParentId(Unwrap(built), p))
    /\ UNCHANGED <<now, input, dflt, parsed, output, reparsed, segVars, idVars, codecVars, layerVars>>

WithSamplingDecisionAct ==
    /\ IsSome(built) /\ output = None
    /\ \E d \in Decisions : built' = Some(WithSamplingDecision(Unwrap(built), d))
    /\ UNCHANGED <<now, input, dflt, parsed, output, reparsed, segVars, idVars, codecVars, layerVars>>

WithDataAct ==
    /\ IsSome(built) /\ output = None
    /\ \E k \in Keys, v \in Values :
         /\ Cardinality(WithData(Unwrap(built), k, v).additional_data) <= MaxData
         /\ built' = Some(WithData(Unwrap(built), k, v))
    /\ UNCHANGED <<now, input, dflt, parsed, output, reparsed, segVars, idVars, codecVars, layerVars>>

\* the Header in hand: the one built, or the one parsed
InHand ==
    IF IsSome(built) THEN built
    ELSE IF IsSome(parsed) /\ Unwrap(parsed).ok THEN Some(Unwrap(parsed).header)
    ELSE None

\* format!("{}", header)
Display ==
    /\ IsSome(InHand) /\ output = None
    /\ \E order \in Orders(Unwrap(InHand).additional_data) :
         output' = Some(HeaderDisplay(Unwrap(InHand), order))
    /\ UNCHANGED <<now, input, dflt, parsed, built, reparsed, segVars, idVars, codecVars, layerVars>>

\* output.parse::<Header>()
Reparse ==
    /\ IsSome(output) /\ reparsed = None
    /\ \E buf \in HdrBufs(TraceIdLen) :
         reparsed' = Some(HeaderFromStr(Unwrap(output), HeaderDefault(now, buf)))
    /\ UNCHANGED <<now, input, dflt, parsed, built, output, segVars, idVars,
                   codecVars, layerVars>>

NextHeader ==
    \/ FromStr \/ New \/ WithParentIdAct \/ WithSamplingDecisionAct
    \/ WithDataAct \/ Display \/ Reparse

SpecHeader == InitHeader /\ [][NextHeader]_vars

\* the lines of the text parsed, and the positions of those with a prefix
Lines == Split(Unwrap(input), ";")
LinesWith(prefix) == { i \in 1..Len(Lines) : StartsWith(Lines[i], prefix) }
Last(S) == CHOOSE i \in S : \A j \in S : j <= i
First(S) == CHOOSE i \in S : \A j \in S : i <= j
HasEq(line) == \E i \in 1..Len(line) : line[i] = "="
\* the lines that are none of Root=, Parent=, Sampled=, Self=
GenericLines ==
    { i \in 1..Len(Lines) :
        /\ ~StartsWith(Lines[i], RootEq) /\ ~StartsWith(Lines[i], ParentEq)
        /\ ~StartsWith(Lines[i], SampledEq) /\ ~StartsWith(Lines[i], SelfEq) }
\* the text before and after the first = of a line that has one
KeyOf(line) == Take(line, First({ i \in 1..Len(line) : line[i] = "=" }) - 1)
ValueOf(line) == Skip(line, First({ i \in 1..Len(line) : line[i] = "=" }))
\* the decision a code stands for
DecisionOfCode(text) ==
    CASE text = SampledEq \o <<"1">> -> "Sampled"
      [] text = SampledEq \o <<"0">> -> "NotSampled"
      [] text = SampledEq \o <<"?">> -> "Requested"
      [] OTHER -> "Unknown"

\* C2: whenever a segment of the text has no =, the parse fails and the
\* error carries the text of that segment (the first such segment, at which
\* the fold stops).
C2_NoEqualsIsErrorWithSegment ==
    (IsSome(input) /\ IsSome(parsed)) =>
        LET bad == { i \in 1..Len(Lines) : ~HasEq(Lines[i]) }
        IN  bad # {} =>
              /\ ~Unwrap(parsed).ok
              /\ Unwrap(parsed).err = NoEqualsError(Lines[First(bad)])

Codes == { SampledEq \o <<"1">>, SampledEq \o <<"0">>, SampledEq \o <<"?">> }

\* the text is Root=t, then maybe ;Parent=p, then maybe one of the three codes
Canonical ==
    /\ IsSome(input)
    /\ Len(Lines) \in 1..3
    /\ StartsWith(Lines[1], RootEq)
    /\ Len(Lines) = 2 => (StartsWith(Lines[2], ParentEq) \/ Lines[2] \in Codes)
    /\ Len(Lines) = 3 => (StartsWith(Lines[2], ParentEq) /\ Lines[3] \in Codes)

\* C3: a text of the form Root=t[;Parent=p][;Sampled=1|0|?] parses, to the
\* trace id text t, the parent text p (or no parent) and the decision of the
\* code (or Unknown), and the parsed Header formats to the same text.
C3_HeaderRoundTrip ==
    (Canonical /\ IsSome(parsed)) =>
        LET r == Unwrap(parsed)
            h == r.header
            n == Len(Lines)
        IN  /\ r.ok
            /\ h.trace_id.kind = "Rendered"
            /\ TraceIdDisplay(h.trace_id) = Skip(Lines[1], Len(RootEq))
            /\ IF n >= 2 /\ StartsWith(Lines[2], ParentEq)
               THEN /\ IsSome(h.parent_id)
                    /\ SegmentIdDisplay(Unwrap(h.parent_id)) = Skip(Lines[2], Len(ParentEq))
               ELSE h.parent_id = None
            /\ h.sampling_decision =
                 (IF Lines[n] \in Codes THEN DecisionOfCode(Lines[n]) ELSE "Unknown")
            /\ h.additional_data = {}
            /\ IsSome(output) => Unwrap(output) = Unwrap(input)

C3_Witness ==
    /\ Canonical /\ Len(Lines) = 3
    /\ IsSome(parsed) /\ Unwrap(parsed).ok
    /\ IsSome(output) /\ Unwrap(output) = Unwrap(input)

NoSemicolon(text) == \A i \in 1..Len(text) : text[i] # ";"

\* no text of the Header holds a semicolon
Clean(h) ==
    /\ NoSemicolon(TraceIdDisplay(h.trace_id))
    /\ IsSome(h.parent_id) => NoSemicolon(SegmentIdDisplay(Unwrap(h.parent_id)))
    /\ \A p \in h.additional_data : NoSemicolon(p[1]) /\ NoSemicolon(p[2])

CodeOfDecision(d) ==
    CASE d = "Sampled" -> SampledEq \o <<"1">>
      [] d = "NotSampled" -> SampledEq \o <<"0">>
      [] d = "Requested" -> SampledEq \o <<"?">>

\* out, cut at its semicolons, is Root=<trace id>, then Parent=<parent> when
\* there is one, then the code of a decision that is not Unknown, then one
\* key=value for each pair, and none of the pieces is empty
Shaped(h, out) ==
    LET pieces == Split(out, ";")
        np == IF IsSome(h.parent_id) THEN 1 ELSE 0
        nd == IF h.sampling_decision # "Unknown" THEN 1 ELSE 0
    IN  /\ Len(pieces) = 1 + np + nd + Cardinality(h.additional_data)
        /\ pieces[1] = RootEq \o TraceIdDisplay(h.trace_id)
        /\ np = 1 => pieces[2] = ParentEq \o SegmentIdDisplay(Unwrap(h.parent_id))
        /\ nd = 1 => pieces[2 + np] = CodeOfDecision(h.sampling_decision)
        /\ { pieces[i] : i \in (2 + np + nd)..Len(pieces) }
             = { p[1] \o <<"=">> \o p[2] : p \in h.additional_data }
        /\ \A i \in 1..Len(pieces) : pieces[i] # <<>>

\* C4 as stated: every formatted Header is shaped so, whatever its texts.
C4_AnyHeaderShaped ==
    IsSome(output) => Shaped(Unwrap(InHand), Unwrap(output))

\* C4, amended: the output starts with Root=<trace id>; a Header with only a
\* trace id formats to exactly that; and the output of a Header whose texts
\* hold no semicolon is Root=, Parent= when present, the code when the
\* decision is not Unknown, one key=value per pair, with no empty segment.
C4_CleanHeaderShaped ==
    IsSome(output) =>
        LET h == Unwrap(InHand)
            out == Unwrap(output)
        IN  /\ StartsWith(out, RootEq \o TraceIdDisplay(h.trace_id))
            /\ (h.parent_id = None /\ h.sampling_decision = "Unknown"
                    /\ h.additional_data = {})
                  => out = RootEq \o TraceIdDisplay(h.trace_id)
            /\ Clean(h) => Shaped(h, out)

C4_Witness ==
    /\ IsSome(output) /\ Clean(Unwrap(InHand))
    /\ Unwrap(InHand).trace_id.kind = "New"
    /\ IsSome(Unwrap(InHand).parent_id)
    /\ Unwrap(InHand).sampling_decision = "Requested"
    /\ Cardinality(Unwrap(InHand).additional_data) = MaxData

\* C5: in a text that parses, the trace id, the parent and the decision are
\* those of the last Root=, Parent= and Sampled= segment (an unrecognized
\* code giving Unknown), and those of the default Header when there is none.
C5_LastSegmentWins ==
    (IsSome(input) /\ IsSome(parsed) /\ Unwrap(parsed).ok) =>
        LET h == Unwrap(parsed).header
            d == Unwrap(dflt)
            roots == LinesWith(RootEq)
            parents == LinesWith(ParentEq)
            sampleds == LinesWith(SampledEq)
        IN  /\ h.trace_id =
                 (IF roots = {} THEN d.trace_id
                  ELSE TraceIdRendered(Skip(Lines[Last(roots)], Len(RootEq))))
            /\ h.parent_id =
                 (IF parents = {} THEN None
                  ELSE Some(SegmentIdRendered(Skip(Lines[Last(parents)], Len(ParentEq)))))
            /\ h.sampling_decision =
                 (IF sampleds = {} THEN "Unknown"
                  ELSE DecisionOfCode(Lines[Last(sampleds)]))
            /\ d.trace_id.kind = "New" /\ d.parent_id = None
            /\ d.sampling_decision = "Unknown"

C5_Witness ==
    /\ IsSome(input) /\ IsSome(parsed) /\ Unwrap(parsed).ok
    /\ Lines = << RootEq \o <<"a">>, RootEq \o <<"b">>, SampledEq \o <<"x">> >>
    /\ Unwrap(parsed).header.trace_id = TraceIdRendered(<<"b">>)
    /\ Unwrap(parsed).header.parent_id = None
    /\ Unwrap(parsed).header.sampling_decision = "Unknown"

PairOf(line) == <<KeyOf(line), ValueOf(line)>>

\* C6 as stated: after a parse that succeeds, every segment that is none of
\* Root=, Parent=, Sampled=, Self= has its key mapped to its value.
C6_EveryPairKept ==
    (IsSome(input) /\ IsSome(parsed) /\ Unwrap(parsed).ok) =>
        \A i \in GenericLines :
            PairOf(Lines[i]) \in Unwrap(parsed).header.additional_data

\* C6, amended: additional_data holds exactly, for each key of such a
\* segment, the pair of the last segment with that key: the text before its
\* first = mapped to all the text after it.
C6_LastPairKept ==
    (IsSome(input) /\ IsSome(parsed) /\ Unwrap(parsed).ok) =>
        Unwrap(parsed).header.additional_data =
            { PairOf(Lines[i]) : i \in
                { j \in GenericLines :
                    \A l \in GenericLines :
                        (l > j) => KeyOf(Lines[l]) # KeyOf(Lines[j]) } }

C6_Witness ==
    /\ IsSome(input) /\ IsSome(parsed) /\ Unwrap(parsed).ok
    /\ Len(Lines) = 2
    /\ Lines[1] = <<"k", "=", "v">> /\ Lines[2] = <<"k", "=", "w", "=", "v">>
    /\ Unwrap(parsed).header.additional_data = { << <<"k">>, <<"w", "=", "v">> >> }

\* the lines that are not Self= segments, in order
RECURSIVE NotSelf(_)
NotSelf(lines) ==
    IF Len(lines) = 0 THEN <<>>
    ELSE IF StartsWith(lines[1], SelfEq) THEN NotSelf(Tail(lines))
    ELSE <<lines[1]>> \o NotSelf(Tail(lines))

\* C7: a Self= segment is dropped: the parse returns what the fold of the
\* other segments returns (so it fails only because of another segment, and
\* no other field is affected), no pair has the key Self, and the format of
\* the parsed Header has no Self= segment.
C7_SelfDropped ==
    (IsSome(input) /\ IsSome(parsed) /\ LinesWith(SelfEq) # {}) =>
        LET r == Unwrap(parsed)
        IN  /\ r.ok = (\A i \in 1..Len(Lines) : HasEq(Lines[i]))
            /\ r.ok => /\ r = TryFold(Unwrap(dflt), NotSelf(Lines), Unwrap(input))
                       /\ \A p \in r.header.additional_data : p[1] # <<"S", "e", "l", "f">>
            /\ IsSome(output) =>
                 \A piece \in { Split(Unwrap(output), ";")[i] :
                                  i \in 1..Len(Split(Unwrap(output), ";")) } :
                     ~StartsWith(piece, SelfEq)

C7_Witness ==
    /\ IsSome(input) /\ IsSome(parsed) /\ Unwrap(parsed).ok /\ IsSome(output)
    /\ Len(Lines) = 3 /\ Lines[2] = SelfEq \o <<"s">>
    /\ Lines[1] = RootEq \o <<"a">> /\ Lines[3] = <<"k", "=", "v">>

\* C16: a text that parses and has a Root= segment formats to a text that
\* parses, to a Header equal to the first, in whatever order the pairs were
\* written.
C16_ParseFormatStable ==
    (/\ IsSome(input) /\ IsSome(parsed) /\ Unwrap(parsed).ok
     /\ LinesWith(RootEq) # {} /\ IsSome(reparsed)) =>
        /\ Unwrap(reparsed).ok
        /\ HeaderEq(Unwrap(reparsed).header, Unwrap(parsed).header)

\* two pairs written in the order opposite to the one they were read in
C16_Witness ==
    /\ IsSome(input) /\ IsSome(reparsed) /\ Unwrap(reparsed).ok
    /\ Lines = << RootEq \o <<"a">>, <<"k", "=", "w", "=", "v">>, <<"j", "=", "v">> >>
    /\ Unwrap(output) =
         RootEq \o <<"a", ";", "j", "=", "v", ";", "k", "=", "w", "=", "v">>
    /\ Cardinality(Unwrap(reparsed).header.additional_data) = 2

----------------------------------------------------------------------------
(* The SamplingDecision codec: a text decoded, the decision encoded, and   *)
(* the encoding decoded again                                              *)

\* the texts handed to from(): the start of Sampled= cut anywhere, followed
\* by one of a few endings, and one in another case
CodeTails ==
    { <<>>, <<"1">>, <<"0">>, <<"?">>, <<"2">>, <<"1", "1">>, <<"1", " ">>,
      <<"t", "r", "u", "e">> }
CodeTexts ==
    { Take(SampledEq, k) \o t : k \in 0..Len(SampledEq), t \in CodeTails }
    \cup { <<"s", "a", "m", "p", "l", "e", "d", "=", "1">> }

InitCodec ==
    /\ now \in HdrClocks
    /\ code \in CodeTexts
    /\ decision = None /\ encoded = None /\ redecoded = None
    /\ SegIdle /\ HdrIdle /\ IdIdle /\ LayerIdle

\* SamplingDecision::from(code)
From ==
    /\ decision = None
    /\ decision' = Some(DecisionFrom(code))
    /\ UNCHANGED <<now, code, encoded, redecoded, segVars, hdrVars, idVars, layerVars>>

\* format!("{}", decision)
DisplayDecision ==
    /\ IsSome(decision) /\ encoded = None
    /\ encoded' = Some(DecisionDisplay(Unwrap(decision)))
    /\ UNCHANGED <<now, code, decision, redecoded, segVars, hdrVars, idVars, layerVars>>

\* SamplingDecision::from(encoded)
FromEncoded ==
    /\ IsSome(encoded) /\ redecoded = None
    /\ redecoded' = Some(DecisionFrom(Unwrap(encoded)))
    /\ UNCHANGED <<now, code, decision, encoded, segVars, hdrVars, idVars, layerVars>>

NextCodec == From \/ DisplayDecision \/ FromEncoded

SpecCodec == InitCodec /\ [][NextCodec]_vars

\* C8: the three codes decode to Sampled, NotSampled and Requested and every
\* other text, the empty one too, to Unknown; a decision encodes to its
\* code and Unknown to the empty text; decoding an encoding gives the
\* decision back.
C8_DecisionCodec ==
    /\ IsSome(decision) =>
         /\ Unwrap(decision) \in Decisions
         /\ Unwrap(decision) = "Sampled" <=> code = SampledEq \o <<"1">>
         /\ Unwrap(decision) = "NotSampled" <=> code = SampledEq \o <<"0">>
         /\ Unwrap(decision) = "Requested" <=> code = SampledEq \o <<"?">>
    /\ IsSome(encoded) =>
         /\ Unwrap(decision) = "Sampled" => Unwrap(encoded) = SampledEq \o <<"1">>
         /\ Unwrap(decision) = "NotSampled" => Unwrap(encoded) = SampledEq \o <<"0">>
         /\ Unwrap(decision) = "Requested" => Unwrap(encoded) = SampledEq \o <<"?">>
         /\ Unwrap(decision) = "Unknown" => Unwrap(encoded) = <<>>
    /\ IsSome(redecoded) => redecoded = decision

C8_Witness ==
    /\ code = SampledEq \o <<"1", "1">>
    /\ decision = Some("Unknown") /\ encoded = Some(<<>>)
    /\ redecoded = Some("Unknown")

----------------------------------------------------------------------------
(* Identifiers generated, displayed, and read back from their text *)

Bytes == 0..255
IdBufs(n) == RandomBufs(n, Bytes, {0, 255})

InitIds ==
    /\ now \in ClockReadings
    /\ tid = None /\ sid = None /\ rendered = None /\ ext = None
    /\ SegIdle /\ HdrIdle /\ CodecIdle /\ LayerIdle

\* TraceId::new()
TraceIdGen ==
    /\ tid = None /\ sid = None
    /\ \E buf \in IdBufs(TraceIdLen) : tid' = Some(TraceIdGenerate(now, buf))
    /\ UNCHANGED <<now, sid, rendered, ext, segVars, hdrVars, codecVars, layerVars>>

\* SegmentId::new()
SegmentIdGen ==
    /\ tid = None /\ sid = None
    /\ \E buf \in IdBufs(SegmentIdLen) : sid' = Some(SegmentIdNew(buf))
    /\ UNCHANGED <<now, tid, rendered, ext, segVars, hdrVars, codecVars, layerVars>>

\* format!("{}", id)
DisplayId ==
    /\ rendered = None /\ (IsSome(tid) \/ IsSome(sid))
    /\ rendered' = IF IsSome(tid) THEN Some(TraceIdDisplay(Unwrap(tid)))
                   ELSE Some(SegmentIdDisplay(Unwrap(sid)))
    /\ UNCHANGED <<now, tid, sid, ext, segVars, hdrVars, codecVars, layerVars>>

\* the text read back as an identifier: visit_str, or a Root= / Parent= line
ReadId ==
    /\ IsSome(rendered) /\ ext = None
    /\ ext' = IF IsSome(tid) THEN Some(TraceIdRendered(Unwrap(rendered)))
              ELSE Some(SegmentIdRendered(Unwrap(rendered)))
    /\ UNCHANGED <<now, tid, sid, rendered, segVars, hdrVars, codecVars, layerVars>>

NextIds == TraceIdGen \/ SegmentIdGen \/ DisplayId \/ ReadId

SpecIds == InitIds /\ [][NextIds]_vars

IsHex(c) == \E i \in 1..16 : HexDigits[i] = c
AllHex(s) == \A i \in 1..Len(s) : IsHex(s[i])
\* the two digits of a byte: the high half, then the low half
TwoDigits(b) == <<HexDigits[(b \div 16) + 1], HexDigits[(b % 16) + 1]>>
BytesAsDigits(bytes, s) ==
    /\ Len(s) = 2 * Len(bytes)
    /\ \A i \in 1..Len(bytes) : SubSeq(s, 2 * i - 1, 2 * i) = TwoDigits(bytes[i])

\* C9: whatever the clock reads and the random source yields, a generated
\* TraceId displays as 1-, 8 hex digits, -, 24 hex digits (35 characters) and
\* a generated SegmentId as 16 hex digits, two digits for each byte.
C9_CanonicalShape ==
    IsSome(rendered) =>
        LET r == Unwrap(rendered)
        IN  IF IsSome(tid)
            THEN /\ Len(r) = 35
                 /\ SubSeq(r, 1, 2) = <<"1", "-">>
                 /\ AllHex(SubSeq(r, 3, 10))
                 /\ r[11] = "-"
                 /\ BytesAsDigits(Unwrap(tid).bytes, SubSeq(r, 12, Len(r)))
            ELSE /\ Len(r) = 16
                 /\ BytesAsDigits(Unwrap(sid).bytes, r)

\* C10: two TraceIds, and two SegmentIds, are equal exactly when their
\* canonical texts are equal, whichever variant each is.
C10_EqualityByText ==
    IsSome(ext) =>
        IF IsSome(tid)
        THEN TraceIdEq(Unwrap(tid), Unwrap(ext))
               <=> (TraceIdDisplay(Unwrap(tid)) = TraceIdDisplay(Unwrap(ext)))
        ELSE SegmentIdEq(Unwrap(sid), Unwrap(ext))
               <=> (SegmentIdDisplay(Unwrap(sid)) = SegmentIdDisplay(Unwrap(ext)))

----------------------------------------------------------------------------
(* lib.rs: the Layer.  The registry calls new_span once for a span it has  *)
(* just created and on_close once when the span closes; each span has its  *)
(* own extension slot, which a callback locks while it changes it.         *)

SpanIds == 1..MaxSpans

\* Header::NAME, the field new_span looks for
HeaderName ==
    <<"X", "-", "A", "m", "z", "n", "-", "T", "r", "a", "c", "e", "-", "I", "d">>

\* Field's Display, which to_string() uses: the name of the field
FieldToString(field) == field

\* the messages of the panics
ExpectHeader == "Unstable to parse header"
SliceIndex == "byte index 200 is not a char boundary"

\* a span the registry has not created, and the spans it holds
NoSpan == [state |-> "absent", name |-> <<>>, ext |-> None]

\* the attributes of a new span: its name and the names of its fields
SpanNames ==
    { <<"s", "v", "c">>, <<"r", "e", "q">>,
      Rep("a", NameLimit - 1) \o <<"U+00E9">> }
SpanFields == { {}, { <<"u", "s", "e", "r">> }, { HeaderName } }

\* new_span up to the insert: the panic it ends with, or the Segment begun
NewSpanOutcome(name, fields, clock, tbuf, sbuf) ==
    IF /\ HeaderName \in fields
       /\ ~HeaderFromStr(FieldToString(HeaderName), HeaderDefault(clock, tbuf)).ok
    THEN [panic |-> Some(ExpectHeader), data |-> None]
    ELSE IF BeginPanics(name)
    THEN [panic |-> Some(SliceIndex), data |-> None]
    ELSE [panic |-> None, data |-> Some(SegmentBegin(name, clock, tbuf, sbuf))]

\* span.extensions_mut().insert(data)
InsertSegment(sp, id, name, data) ==
    [sp EXCEPT ![id] = [state |-> "open", name |-> name, ext |-> Some(data)]]

\* as CloseSpan, but end() called on the Segment of every open span
CloseSpanAll(sp, id, clock) ==
    [x \in DOMAIN sp |->
        IF sp[x].state = "open"
        THEN [sp[x] EXCEPT !.state = IF x = id THEN "closed" ELSE "open",
                           !.ext = Some(SegmentEnd(Unwrap(sp[x].ext), clock))]
        ELSE sp[x]]

\* on_close: end() on the Segment in the extensions of span id
CloseSpan(sp, id, clock) ==
    [sp EXCEPT ![id] = [sp[id] EXCEPT !.state = "closed",
                                      !.ext = Some(SegmentEnd(Unwrap(sp[id].ext), clock))]]

InitLayer ==
    /\ now \in { c \in ClockReadings : c.whole[3] = 22361 }
    /\ spans = [x \in SpanIds |-> NoSpan]
    /\ panicked = None
    /\ SegIdle /\ HdrIdle /\ IdIdle /\ CodecIdle

\* Layer::new_span(attrs, id, ctx).  A span whose creation panicked has no
\* Segment and is never closed.
NewSpan ==
    /\ \E id \in SpanIds, name \in SpanNames, fields \in SpanFields,
          sbuf \in SegBufs(SegmentIdLen) :
         /\ spans[id].state = "absent"
         /\ LET r == NewSpanOutcome(name, fields, now, Rep(116, TraceIdLen), sbuf)
            IN  IF IsSome(r.panic)
                THEN /\ panicked' = r.panic
                     /\ spans' = [spans EXCEPT ![id] =
                                     [state |-> "lost", name |-> name, ext |-> None]]
                ELSE /\ spans' = InsertSegment(spans, id, name, Unwrap(r.data))
                     /\ UNCHANGED panicked
    /\ UNCHANGED <<now, segVars, hdrVars, idVars, codecVars>>

\* Layer::on_close(id, ctx)
OnClose ==
    /\ \E id \in SpanIds :
         /\ spans[id].state = "open"
         /\ IF spans[id].ext = None
            THEN /\ panicked' = Some("span does not have XRay segment")
                 /\ UNCHANGED spans
            ELSE /\ spans' = CloseSpan(spans, id, now)
                 /\ UNCHANGED panicked
    /\ UNCHANGED <<now, segVars, hdrVars, idVars, codecVars>>

\* the wall clock moves by a fraction of a second
LayerTick ==
    /\ now' \in { c \in ClockReadings : c.whole = now.whole } \ {now}
    /\ UNCHANGED <<segVars, hdrVars, idVars, codecVars, layerVars>>

NextLayer == NewSpan \/ OnClose \/ LayerTick

SpecLayer == InitLayer /\ [][NextLayer]_vars

C15_NoPanicOnHeaderField ==
    /\ panicked # Some(ExpectHeader)
    /\ \A x \in SpanIds : spans[x].state # "lost" \/ BeginPanics(spans[x].name)

====
